---- MODULE Spec2Model ----
(***************************************************************************)
(* Model of FrontendAnalyzer (src/frontend_analyzer.py): the dependency    *)
(* classifier, the search index, the path resolver, the recursive          *)
(* dependency walker and the cycle detector.                               *)
(*                                                                         *)
(* Paths and import specifiers are strings, as in the program; a missing   *)
(* value (Python None) is the empty string.  The walker is modelled one    *)
(* loop iteration at a time over an explicit call stack, so the states in  *)
(* the middle of an analysis are states of the model too.                  *)
(***************************************************************************)
EXTENDS Integers, Sequences, FiniteSets, TLC

VARIABLES
    max_depth,        \* Config.max_depth
    analyze_mode,     \* Config.analyze_mode
    content,          \* text of every source file: the imports it contains
    hashOrder,        \* iteration order of this process's string sets
    files,            \* FrontendAnalyzer.files
    dependency_graph, \* FrontendAnalyzer.dependency_graph (a defaultdict)
    stack,            \* activations of _analyze_dependencies, innermost last
    extractCount,     \* per file key: executions of _extract_dependencies
    calls,            \* the files of the top-level analyze_file calls made so far
    cycles,           \* per start file: what _find_circular_dependencies returned
    deps,             \* the DependencyInfo _extract_dependencies is filling
    matches,          \* import paths matched in the content, not yet classified
    resolving,        \* the import path of the last call of the resolver on its own
    resolved          \* the path that call returned

vars == <<max_depth, analyze_mode, content, hashOrder, files, dependency_graph,
          stack, extractCount, calls, cycles, deps, matches, resolving, resolved>>

(***************************************************************************)
(* Bounds of the model.                                                    *)
(***************************************************************************)
MaxDepthBound == 1   \* max_depth ranges over 0..MaxDepthBound
MaxImports == 2      \* imports per source file
MaxCalls == 2        \* top-level analyze_file calls per run
MaxMatches == 2      \* import paths classified into one DependencyInfo
MaxNodes == 3        \* files of a dependency graph given to the cycle detector
MaxEdges == 4        \* edges of such a graph

None == ""

(***************************************************************************)
(* Python str and pathlib operations.                                      *)
(***************************************************************************)
CharAt(s, i) == SubSeq(s, i, i)

StartsWith(s, p) == Len(s) >= Len(p) /\ SubSeq(s, 1, Len(p)) = p

EndsWith(s, p) == Len(s) >= Len(p) /\ SubSeq(s, Len(s) - Len(p) + 1, Len(s)) = p

\* Python's  w in s
Contains(s, w) ==
    \E i \in 1..(Len(s) - Len(w) + 1) : SubSeq(s, i, i + Len(w) - 1) = w

\* str.rfind, 1-based; 0 when c does not occur
RFind(s, c) ==
    IF \E i \in 1..Len(s) : CharAt(s, i) = c
    THEN CHOOSE i \in 1..Len(s) :
            CharAt(s, i) = c /\ \A j \in (i + 1)..Len(s) : CharAt(s, j) # c
    ELSE 0

RECURSIVE SplitFrom(_, _, _)
SplitFrom(s, i, cur) ==
    IF i > Len(s) THEN <<cur>>
    ELSE IF CharAt(s, i) = "/" THEN <<cur>> \o SplitFrom(s, i + 1, "")
    ELSE SplitFrom(s, i + 1, cur \o CharAt(s, i))

\* str.split('/')
Split(s) == SplitFrom(s, 1, "")

RECURSIVE LStripSlash(_)
LStripSlash(s) == IF StartsWith(s, "/") THEN LStripSlash(Tail(s)) ELSE s

UpperAlphabet == "ABCDEFGHIJKLMNOPQRSTUVWXYZ"
LowerAlphabet == "abcdefghijklmnopqrstuvwxyz"

LowerChar(c) ==
    IF \E i \in 1..26 : CharAt(UpperAlphabet, i) = c
    THEN CharAt(LowerAlphabet, CHOOSE i \in 1..26 : CharAt(UpperAlphabet, i) = c)
    ELSE c

RECURSIVE Lower(_)
Lower(s) == IF s = "" THEN "" ELSE LowerChar(CharAt(s, 1)) \o Lower(Tail(s))

\* fnmatch.fnmatch(filename.lower(), pattern.lower()) for the three patterns
\* _find_file builds from a name without glob metacharacters
FnMatch(filename, shape, name) ==
    CASE shape = "*n*" -> Contains(Lower(filename), Lower(name))
      [] shape = "*n"  -> EndsWith(Lower(filename), Lower(name))
      [] shape = "n*"  -> StartsWith(Lower(filename), Lower(name))

\* the components of a path string, without empty and "." components
Segs(p) == SelectSeq(Split(p), LAMBDA g : g # "" /\ g # ".")

IsAbs(p) == StartsWith(p, "/")

RECURSIVE JoinSegs(_)
JoinSegs(segs) ==
    IF segs = <<>> THEN ""
    ELSE IF Len(segs) = 1 THEN segs[1]
    ELSE segs[1] \o "/" \o JoinSegs(Tail(segs))

MkPath(abs, segs) ==
    IF abs THEN "/" \o JoinSegs(segs)
    ELSE IF segs = <<>> THEN "." ELSE JoinSegs(segs)

\* str(Path(p)): pathlib drops empty and "." components and keeps ".."
PurePath(p) == MkPath(IsAbs(p), Segs(p))

\* a / b
PathJoin(a, b) == IF IsAbs(b) THEN PurePath(b) ELSE PurePath(a \o "/" \o b)

\* Path.parts, as a set (the key of _find_file's min only uses it as a set)
Parts(p) ==
    {Segs(p)[i] : i \in 1..Len(Segs(p))} \cup (IF IsAbs(p) THEN {"/"} ELSE {})

\* Path.name
PathName(p) == IF Segs(p) = <<>> THEN "" ELSE Segs(p)[Len(Segs(p))]

\* Path.parent
PathParent(p) ==
    IF Segs(p) = <<>> THEN PurePath(p)
    ELSE MkPath(IsAbs(p), SubSeq(Segs(p), 1, Len(Segs(p)) - 1))

\* Path.suffix
PathSuffix(p) ==
    LET name == PathName(p)
        i == RFind(name, ".")
    IN  IF 1 < i /\ i < Len(name) THEN SubSeq(name, i, Len(name)) ELSE ""

\* Path.with_suffix(ext): replaces an existing suffix, else appends
WithSuffix(p, ext) ==
    LET q == PurePath(p)
    IN  SubSeq(q, 1, Len(q) - Len(PathSuffix(q))) \o ext

\* the probe of _resolve_dependency_path:
\*   p.with_suffix(ext) if not ext.startswith('/') else Path(str(p) + ext)
Probe(p, ext) ==
    IF StartsWith(ext, "/") THEN PurePath(PurePath(p) \o ext) ELSE WithSuffix(p, ext)

\* os.path.basename
OsBasename(s) == SubSeq(s, RFind(s, "/") + 1, Len(s))

\* os.path.splitext(s)[0] for s without a directory part
SplitextRoot(s) ==
    LET i == RFind(s, ".")
    IN  IF i > 0 /\ \E j \in 1..(i - 1) : CharAt(s, j) # "."
        THEN SubSeq(s, 1, i - 1) ELSE s

RECURSIVE ResolveSegs(_, _)
ResolveSegs(segs, acc) ==
    IF segs = <<>> THEN acc
    ELSE IF segs[1] = ".."
         THEN ResolveSegs(Tail(segs), IF acc = <<>> THEN acc
                                      ELSE SubSeq(acc, 1, Len(acc) - 1))
         ELSE ResolveSegs(Tail(segs), Append(acc, segs[1]))

\* Path.resolve() of an absolute path in a tree without symbolic links
PathResolve(p) == MkPath(TRUE, ResolveSegs(Segs(p), <<>>))

\* Path.relative_to(base); None models the ValueError
RelativeTo(p, base) ==
    LET ps == Segs(p)
        bs == Segs(base)
    IN  IF IsAbs(p) = IsAbs(base) /\ Len(ps) >= Len(bs) /\ SubSeq(ps, 1, Len(bs)) = bs
        THEN MkPath(FALSE, SubSeq(ps, Len(bs) + 1, Len(ps)))
        ELSE None

(***************************************************************************)
(* Config and the project tree.  project_path is the target file; the      *)
(* program derives the project root and the current directory from it.     *)
(***************************************************************************)
project_path == "/p/src/views/App.vue"

\* self.config.project_path.parent.parent.parent
project_root == PathParent(PathParent(PathParent(project_path)))

\* current_dir of _resolve_dependency_path
current_dir == PathParent(project_path)

alias_mappings == [a \in {"@"} |-> "src"]

ignore_patterns == {"node_modules", "dist", "build", ".git"}

FA == "src/views/App.vue"
FB == "src/components/B.vue"
FT == "src/hooks/useT.ts"
FXV == "src/views/x.ts"
FXC == "src/components/x.ts"
FCSS == "src/views/theme.css"
FTO == "src/hooks/useT.old.ts"

\* every file of the project tree, relative to the project root
AllFiles == {FA, FB, FT, FXV, FXC, FCSS, FTO}

FileList == <<FA, FB, FT, FXV, FXC, FCSS, FTO>>

RECURSIVE Reverse(_)
Reverse(q) == IF q = <<>> THEN <<>> ELSE Append(Reverse(Tail(q)), q[1])

RECURSIVE Ancestors(_)
Ancestors(p) == IF Segs(p) = <<>> THEN {p} ELSE {p} \cup Ancestors(PathParent(p))

AbsFiles == {PathJoin(project_root, f) : f \in AllFiles}

AbsDirs == UNION {Ancestors(PathParent(f)) : f \in AbsFiles}

RECURSIVE WalkExists(_, _)
WalkExists(segs, cur) ==
    IF segs = <<>> THEN cur \in AbsFiles \cup AbsDirs
    ELSE IF cur \notin AbsDirs THEN FALSE
    ELSE IF segs[1] = ".." THEN WalkExists(Tail(segs), PathParent(cur))
    ELSE WalkExists(Tail(segs), PathJoin(cur, segs[1]))

\* Path.exists(): the operating system follows the path component by component
Exists(p) == IsAbs(p) /\ WalkExists(Segs(p), "/")

IsFile(p) == Exists(p) /\ PathResolve(p) \in AbsFiles

\* index_extensions of Config
LangExtensions ==
    [l \in {"vue", "typescript", "javascript"} |->
        CASE l = "vue" -> {".vue"}
          [] l = "typescript" -> {".ts", ".tsx"}
          [] l = "javascript" -> {".js", ".jsx"}]

\* the import patterns of each language, named by the form they match
LangPatterns ==
    [l \in {"vue", "typescript", "javascript"} |->
        CASE l = "vue" -> {"es6", "require", "dynamic", "type"}
          [] l = "typescript" -> {"es6", "type"}
          [] l = "javascript" -> {"es6", "require"}]

\* self.import_patterns: the patterns of all languages together
import_patterns == UNION {LangPatterns[l] : l \in DOMAIN LangPatterns}

_should_ignore(path) == Parts(path) \cap ignore_patterns # {}

_determine_file_type(file_path) ==
    IF \E l \in DOMAIN LangExtensions : PathSuffix(file_path) \in LangExtensions[l]
    THEN CHOOSE l \in DOMAIN LangExtensions : PathSuffix(file_path) \in LangExtensions[l]
    ELSE None

(***************************************************************************)
(* The project the analyzer runs on.  Only the imports the source files    *)
(* contain vary; every import path of the model is listed here, and the    *)
(* string-level results that depend on nothing else are tabulated once.    *)
(***************************************************************************)
Import(path, form) == [path |-> path, form |-> form]

\* imports every version of a file contains
BaseImports(f) ==
    IF f = FB
    THEN {Import("react", "es6"), Import("./B.css", "es6"),
          Import("@/api/user", "es6"), Import("@/types/t", "type")}
    ELSE {}

\* imports a file may contain in addition
Candidates(f) ==
    CASE f = FA -> {Import("../components/B", "es6"), Import("./x", "es6"),
                    Import("./App", "es6"), Import("./qq", "es6")}
      [] f = FB -> {Import("../views/App", "es6"), Import("./x", "es6"),
                    Import("@/hooks/useT", "es6")}
      [] f = FT -> {Import("./qq", "require"), Import("@/components/B", "es6"),
                    Import("./theme", "require")}
      [] OTHER -> {}

\* import paths given to the classifier on its own
ClassifyInputs ==
    {"@/components/hooks/Foo", "../hooks/useThing", "@/hooks/components/X",
     "@/utils/api", "@/types/hooks", "@/api/utils", "@/theme.css",
     "@/store/components", "@/views/main.css", "./components/hooks",
     "./hooks/utils", "./utils/types", "./types/api", "./x.d.ts", "./api/a.css",
     "./a.css", "react", "@scope/pkg", "/abs/mod", "./plain", "lodash/utils",
     "react-components", "@types/node", "vue.css"}

\* import paths given to the resolver on its own
ResolveInputs ==
    {"@/hooks/useT", "@/hooks/useT.old", "@/components/B", "@/views/App.vue",
     "@/views", "@/api/user", "@/store/zz", "./x", "./App", "./qq",
     "../components/B", "react", "x", "theme.css"}

Specifiers ==
    {i.path : i \in UNION {BaseImports(f) \cup Candidates(f) : f \in AllFiles}}
    \cup ClassifyInputs \cup ResolveInputs

HashOrders == {FileList, Reverse(FileList)}

AbsOf == [f \in AllFiles |-> PathJoin(project_root, f)]

KnownPaths == AbsFiles \cup AbsDirs

PathFactsOf(p) ==
    [relative |-> RelativeTo(p, project_root),
     ignored |-> _should_ignore(p),
     file_type |-> _determine_file_type(p),
     exists |-> Exists(p),
     is_file |-> IsFile(p),
     text |-> RelativeTo(PathResolve(p), project_root),
     str |-> PurePath(p)]

PathFacts == [p \in KnownPaths |-> PathFactsOf(p)]

Facts(p) == IF p \in KnownPaths THEN PathFacts[p] ELSE PathFactsOf(p)

(***************************************************************************)
(* DependencyInfo and the dependency classifier.                           *)
(***************************************************************************)
EmptyMap == [x \in {} |-> None]

DependencyInfo(depth, parent) ==
    [components |-> EmptyMap, hooks |-> {}, utils |-> {}, types |-> {},
     styles |-> {}, external |-> {}, api |-> {}, depth |-> depth, parent |-> parent]

StyleSuffixes == {".css", ".scss", ".less", ".sass"}

IsStyle(s) == \E x \in StyleSuffixes : EndsWith(s, x)

\* the branch taken for an import path that starts with '@/': the collection
\* of DependencyInfo the path is added to
CategorizeAlias(import_path) ==
    LET category == Split(import_path)[2]
    IN  CASE category = "components" -> "components"
          [] category = "hooks" -> "hooks"
          [] category = "utils" -> "utils"
          [] category = "types" -> "types"
          [] category = "api" -> "api"
          [] OTHER -> IF IsStyle(category) THEN "styles" ELSE "utils"

\* the substring checks with hooks tested before components
CategorizeOtherHooksFirst(import_path) ==
    IF Contains(import_path, "hooks") THEN "hooks"
    ELSE IF Contains(import_path, "components") THEN "components"
    ELSE IF Contains(import_path, "utils") THEN "utils"
    ELSE IF Contains(import_path, "types") \/ EndsWith(import_path, ".d.ts") THEN "types"
    ELSE IF Contains(import_path, "api") THEN "api"
    ELSE IF IsStyle(import_path) THEN "styles"
    ELSE IF ~\E p \in {"/", ".", "@"} : StartsWith(import_path, p) THEN "external"
    ELSE "utils"

\* the branch taken for every other import path
CategorizeOther(import_path) ==
    IF Contains(import_path, "components") THEN "components"
    ELSE IF Contains(import_path, "hooks") THEN "hooks"
    ELSE IF Contains(import_path, "utils") THEN "utils"
    ELSE IF Contains(import_path, "types") \/ EndsWith(import_path, ".d.ts") THEN "types"
    ELSE IF Contains(import_path, "api") THEN "api"
    ELSE IF IsStyle(import_path) THEN "styles"
    ELSE IF ~\E p \in {"/", ".", "@"} : StartsWith(import_path, p) THEN "external"
    ELSE "utils"

CategoryOf(import_path) ==
    IF StartsWith(import_path, "@/")
    THEN CategorizeAlias(import_path)
    ELSE CategorizeOther(import_path)

Category == [s \in Specifiers |-> CategoryOf(s)]

\* deps.<collection>.add(import_path); a component gets a nested DependencyInfo
AddTo(d, collection, import_path) ==
    CASE collection = "components" ->
            [d EXCEPT !.components =
                [x \in DOMAIN d.components \cup {import_path} |->
                    IF x = import_path THEN DependencyInfo(d.depth + 1, import_path)
                    ELSE d.components[x]]]
      [] collection = "hooks" -> [d EXCEPT !.hooks = @ \cup {import_path}]
      [] collection = "utils" -> [d EXCEPT !.utils = @ \cup {import_path}]
      [] collection = "types" -> [d EXCEPT !.types = @ \cup {import_path}]
      [] collection = "api" -> [d EXCEPT !.api = @ \cup {import_path}]
      [] collection = "styles" -> [d EXCEPT !.styles = @ \cup {import_path}]
      [] collection = "external" -> [d EXCEPT !.external = @ \cup {import_path}]

_categorize_dependency(import_path, d) == AddTo(d, Category[import_path], import_path)

RECURSIVE CategorizeAll(_, _)
CategorizeAll(paths, d) ==
    IF paths = {} THEN d
    ELSE LET p == CHOOSE x \in paths : TRUE
         IN  CategorizeAll(paths \ {p}, _categorize_dependency(p, d))

\* every pattern is run over the content, whatever the language of the file
_extract_dependencies(text, d) ==
    CategorizeAll({m.path : m \in {i \in text : i.form \in import_patterns}}, d)

(***************************************************************************)
(* The search index, as _build_search_index leaves it.  The project tree   *)
(* and the file contents do not change during a run, so the index is a     *)
(* function of them.                                                       *)
(***************************************************************************)
Indexed == {f \in AllFiles : ~_should_ignore(AbsOf[f])}

\* search_index.file_index[name]
file_index(name) == {f \in Indexed : PathName(f) = name}

FileIndexKeys == {PathName(f) : f \in Indexed}

SourceType == [f \in AllFiles |-> _determine_file_type(AbsOf[f])]

\* the imports of file f that the patterns of f's own language match
IndexedImports(f) ==
    IF SourceType[f] = None THEN {}
    ELSE {i \in content[f] : i.form \in LangPatterns[SourceType[f]]}

\* the extra key of a relative import path: the existing path it names from
\* the directory of the importing file, relative to the project root
RelativeKey(resolved_path) ==
    IF Exists(resolved_path) /\ RelativeTo(resolved_path, project_root) # None
    THEN {RelativeTo(resolved_path, project_root)}
    ELSE {}

\* the keys under which one import of file f is entered in import_index
ImportKeys(f, import_path) ==
    {import_path}
    \cup (IF StartsWith(import_path, "./") \/ StartsWith(import_path, "../")
          THEN RelativeKey(PathResolve(PathJoin(PathParent(AbsOf[f]), import_path)))
          ELSE {})
    \cup (IF StartsWith(import_path, "@")
          THEN {alias_mappings["@"] \o SubSeq(import_path, 2, Len(import_path))}
          ELSE {})

IndexKeys == [s \in Specifiers |-> [f \in AllFiles |-> ImportKeys(f, s)]]

\* search_index.import_index[key]
import_index(key) ==
    {f \in Indexed : \E i \in IndexedImports(f) : key \in IndexKeys[i.path][f]}

\* next(iter(S)) for a non-empty set of strings iterated in the given order
FirstOf(S, order) ==
    LET pos(x) == CHOOSE k \in 1..Len(order) : order[k] = x
    IN  CHOOSE x \in S : \A y \in S : pos(x) <= pos(y)

\* min(project_root / path for path in paths, key=...) of _find_file
Closest(paths, dir, order) ==
    LET key(path) ==
            LET a == Parts(AbsOf[path])
                b == Parts(dir)
            IN  Cardinality((a \ b) \cup (b \ a))
    IN  AbsOf[FirstOf({x \in paths : \A y \in paths : key(x) <= key(y)}, order)]

\* the path returned for a non-empty set of matching paths
PickMatch(paths, dir, order) ==
    IF Cardinality(paths) = 1
    THEN AbsOf[CHOOSE x \in paths : TRUE]
    ELSE Closest(paths, dir, order)

FuzzyMatches(shape, name) ==
    UNION {file_index(fn) : fn \in {k \in FileIndexKeys : FnMatch(k, shape, name)}}

\* current_dir.rglob("*name*"), files only, ignored paths skipped
LiveSearch(name, dir) ==
    {f \in AllFiles :
        /\ StartsWith(AbsOf[f], dir \o "/")
        /\ Contains(PathName(f), name)
        /\ ~_should_ignore(AbsOf[f])}

\* the first non-empty set of matches decides; the search of the directory
\* tree comes last
FirstFound(all, tail, head, live, dir, order) ==
    IF all # {} THEN PickMatch(all, dir, order)
    ELSE IF tail # {} THEN PickMatch(tail, dir, order)
    ELSE IF head # {} THEN PickMatch(head, dir, order)
    ELSE IF live # {} THEN AbsOf[FirstOf(live, order)]
    ELSE None

\* the patterns *name*, *name and name* in turn, then the directory tree
FuzzyFind(name, dir, order) ==
    FirstFound(FuzzyMatches("*n*", name), FuzzyMatches("*n", name),
               FuzzyMatches("n*", name), LiveSearch(name, dir), dir, order)

_find_file(name, dir, order) ==
    IF name \in FileIndexKeys
    THEN PickMatch(file_index(name), dir, order)
    ELSE FuzzyFind(name, dir, order)

(***************************************************************************)
(* The path resolver.                                                      *)
(***************************************************************************)
ProbeList == <<".tsx", ".jsx", ".ts", ".js", ".vue",
               "/index.tsx", "/index.jsx", "/index.ts", "/index.js", "/index.vue">>

\* the result of the first iteration of a probe loop that returns
FirstHit(hits) ==
    IF \E k \in 1..Len(hits) : hits[k] # None
    THEN hits[CHOOSE k \in 1..Len(hits) :
                 hits[k] # None /\ \A j \in 1..(k - 1) : hits[j] = None]
    ELSE None

\* if test_path.exists(): return test_path
IfExists(test_path) == IF Exists(test_path) THEN test_path ELSE None

\* the first existing path among p with each entry of the probe list
FirstProbe(p) ==
    FirstHit([k \in 1..Len(ProbeList) |-> IfExists(Probe(p, ProbeList[k]))])

\* the path itself if it exists, else the first existing probe of it
ExistingOrProbed(p) == IF Exists(p) THEN p ELSE FirstProbe(p)

\* 1. relative path, resolved against the directory dir
ResolveRelativeFrom(import_path, dir) ==
    IF StartsWith(import_path, "./") \/ StartsWith(import_path, "../")
    THEN ExistingOrProbed(PathResolve(PathJoin(dir, import_path)))
    ELSE None

\* the resolver always takes the directory of config.project_path
ResolveRelative(import_path) == ResolveRelativeFrom(import_path, current_dir)

\* 2. alias path
ResolveAlias(import_path) ==
    IF StartsWith(import_path, "@/") /\ "@" \in DOMAIN alias_mappings
    THEN ExistingOrProbed(
             PathJoin(project_root,
                      alias_mappings["@"] \o "/" \o SubSeq(import_path, 3, Len(import_path))))
    ELSE None

\* 4. fuzzy file search
ResolveFuzzy(import_path, order) ==
    IF OsBasename(import_path) # ""
    THEN _find_file(SplitextRoot(OsBasename(import_path)), current_dir, order)
    ELSE None

\* one iteration of the last loop: the probe from the project root, then the
\* probe from the current directory
ProbeBoth(base_path, cur_path, ext) ==
    IF Exists(Probe(base_path, ext)) THEN Probe(base_path, ext)
    ELSE IfExists(Probe(cur_path, ext))

\* 5. extension probe from the project root and from the current directory
ResolveProbe(import_path) ==
    FirstHit([k \in 1..Len(ProbeList) |->
                 ProbeBoth(PathJoin(project_root, LStripSlash(import_path)),
                           PathJoin(current_dir, import_path), ProbeList[k])])

\* what the strategies that do not read the import index give for each path
Strategies ==
    [s \in Specifiers |->
        [relative |-> ResolveRelative(s),
         alias |-> ResolveAlias(s),
         fuzzy |-> [o \in HashOrders |-> ResolveFuzzy(s, o)],
         probe |-> ResolveProbe(s)]]

\* return project_root / next(iter(paths))
FirstIndexed(paths, order) ==
    IF paths # {} THEN AbsOf[FirstOf(paths, order)] ELSE None

\* 3. import index
ResolveIndex(import_path) == FirstIndexed(import_index(import_path), hashOrder)

\* the result of the first strategy, in the order of the code, that gives one
FirstResolved(st, indexed, order) ==
    IF st.relative # None THEN st.relative
    ELSE IF st.alias # None THEN st.alias
    ELSE IF indexed # None THEN indexed
    ELSE IF st.fuzzy[order] # None THEN st.fuzzy[order]
    ELSE st.probe

_resolve_dependency_path(import_path) ==
    FirstResolved(Strategies[import_path], ResolveIndex(import_path), hashOrder)

(***************************************************************************)
(* The dependency walker.                                                  *)
(***************************************************************************)
FileInfo(path, file_type, dependencies, analyzed) ==
    [path |-> path, file_type |-> file_type,
     dependencies |-> dependencies, analyzed |-> analyzed]

\* file_path.read_text(): the imports written in the file
ReadText(file_path) == content[Facts(file_path).text]

\* self.files[str(relative_path)] = file_info, with one more extraction counted
StoreFileInfo(relative_path, file_info) ==
    [files |-> [k \in DOMAIN files \cup {relative_path} |->
                   IF k = relative_path THEN file_info ELSE files[k]],
     extractCount |->
         [k \in DOMAIN extractCount \cup {relative_path} |->
             IF k = relative_path
             THEN (IF k \in DOMAIN extractCount THEN extractCount[k] ELSE 0) + 1
             ELSE extractCount[k]]]

\* the files table and the extraction count after _process_file(file_path, depth)
_process_file(file_path, depth) ==
    IF \/ Facts(file_path).relative = None
       \/ Facts(file_path).ignored
       \/ Facts(file_path).file_type = None
       \/ ~Facts(file_path).is_file
    THEN [files |-> files, extractCount |-> extractCount]
    ELSE StoreFileInfo(Facts(file_path).relative,
                       FileInfo(Facts(file_path).relative, Facts(file_path).file_type,
                                _extract_dependencies(ReadText(file_path),
                                                      DependencyInfo(depth, None)),
                                TRUE))

_is_analyzed(file_path) ==
    LET relative_path == Facts(file_path).relative
    IN  /\ relative_path # None
        /\ relative_path \in DOMAIN files
        /\ files[relative_path].analyzed

\* a depth guard that is off by one
DepthExceededLate(depth) == depth > max_depth + 1

\* the depth guard of analyze_file
DepthExceeded(depth) == depth > max_depth

\* a walker that also iterates over the api dependencies
WalkedDepsWithApi(d) ==
    [components |-> DOMAIN d.components, hooks |-> d.hooks, utils |-> d.utils \cup d.api]

\* the dependencies _analyze_dependencies iterates over
WalkedDeps(d) == [components |-> DOMAIN d.components, hooks |-> d.hooks, utils |-> d.utils]

\* file_key of _analyze_dependencies: the path relative to the project root,
\* or the path as it is when it is outside the root
FileKey(file_path) ==
    IF Facts(file_path).relative = None
    THEN Facts(file_path).str
    ELSE Facts(file_path).relative

\* the activation of _analyze_dependencies(file_path, depth), pushed on stk;
\* tbl is the files table at the time of the call
_analyze_dependencies(file_path, depth, tbl, stk) ==
    IF FileKey(file_path) \notin DOMAIN tbl THEN stk
    ELSE Append(stk, [file_key |-> FileKey(file_path), depth |-> depth,
                      todo |-> WalkedDeps(tbl[FileKey(file_path)].dependencies),
                      pending |-> None])

\* a walker that analyzes the dependencies at the depth of their importer
AfterProcessSameDepth(done, file_path, depth, stk) ==
    [files |-> done.files, extractCount |-> done.extractCount,
     stack |-> IF analyze_mode = "deep"
               THEN _analyze_dependencies(file_path, depth, done.files, stk)
               ELSE stk]

\* an analyze_file that goes on to the dependencies in every mode
AfterProcessAlwaysDeep(done, file_path, depth, stk) ==
    [files |-> done.files, extractCount |-> done.extractCount,
     stack |-> _analyze_dependencies(file_path, depth + 1, done.files, stk)]

\* the rest of analyze_file once _process_file has returned done
AfterProcess(done, file_path, depth, stk) ==
    [files |-> done.files, extractCount |-> done.extractCount,
     stack |-> IF analyze_mode = "deep"
               THEN _analyze_dependencies(file_path, depth + 1, done.files, stk)
               ELSE stk]

\* the files table, the extraction count and the stack after the body of
\* analyze_file(file_path, depth) called with stack stk
analyze_file(file_path, depth, stk) ==
    IF DepthExceeded(depth) \/ ~Facts(file_path).exists
    THEN [files |-> files, extractCount |-> extractCount, stack |-> stk]
    ELSE AfterProcess(_process_file(file_path, depth), file_path, depth, stk)

Top == stack[Len(stack)]

SetTop(stk, frame) == [stk EXCEPT ![Len(stk)] = frame]

\* the loop _analyze_dependencies is in: components, then hooks, then utils
CurrentLoop(frame) ==
    IF frame.todo.components # {} THEN "components"
    ELSE IF frame.todo.hooks # {} THEN "hooks"
    ELSE IF frame.todo.utils # {} THEN "utils"
    ELSE None

LoopItems(frame) ==
    CASE CurrentLoop(frame) = "components" -> frame.todo.components
      [] CurrentLoop(frame) = "hooks" -> frame.todo.hooks
      [] CurrentLoop(frame) = "utils" -> frame.todo.utils
      [] OTHER -> {}

\* a loop that never consumes the item it has taken
RemainingStuck(items, item) == items

\* the items left to the running for loop once it has taken item
Remaining(items, item) == items \ {item}

Advance(frame, item) ==
    CASE CurrentLoop(frame) = "components" ->
            [frame EXCEPT !.todo.components = Remaining(@, item)]
      [] CurrentLoop(frame) = "hooks" ->
            [frame EXCEPT !.todo.hooks = Remaining(@, item)]
      [] CurrentLoop(frame) = "utils" ->
            [frame EXCEPT !.todo.utils = Remaining(@, item)]

\* dependency_graph[key], a read of the defaultdict without its side effect
Edges(g, key) == IF key \in DOMAIN g THEN g[key] ELSE {}

\* the edge insertion without its  if resolved_path:  guard
AddEdgeUnguarded(g, file_key, resolved_path) ==
    [k \in DOMAIN g \cup {file_key} |->
        IF k = file_key
        THEN Edges(g, k) \cup {IF resolved_path # None THEN Facts(resolved_path).str
                               ELSE "None"}
        ELSE g[k]]

\* if resolved_path: self.dependency_graph[file_key].add(str(resolved_path))
AddEdge(g, file_key, resolved_path) ==
    IF resolved_path # None
    THEN [k \in DOMAIN g \cup {file_key} |->
            IF k = file_key THEN Edges(g, k) \cup {Facts(resolved_path).str} ELSE g[k]]
    ELSE g

Static ==
    UNCHANGED <<max_depth, analyze_mode, content, hashOrder, deps, matches,
                resolving, resolved>>

\* the state an analyze_file call leaves
Returns(r) ==
    /\ files' = r.files
    /\ extractCount' = r.extractCount
    /\ stack' = r.stack

DirectTargets == {FA, FB}

\* a top-level call analyze_file(project_root / f), depth left at its default
AnalyzeTarget(f) ==
    /\ stack = <<>>
    /\ cycles = EmptyMap
    /\ Len(calls) < MaxCalls
    /\ Returns(analyze_file(AbsOf[f], 0, stack))
    /\ calls' = Append(calls, f)
    /\ UNCHANGED <<dependency_graph, cycles>>
    /\ Static

\* one iteration of a for loop up to and including the edge insertion, for
\* the item the loop takes and the path it resolves to
ResolveStep(item, resolved_path) ==
    /\ Top.pending = None
    /\ dependency_graph' = AddEdge(dependency_graph, Top.file_key, resolved_path)
    /\ stack' = SetTop(stack, [Advance(Top, item) EXCEPT !.pending = resolved_path])
    /\ UNCHANGED <<files, extractCount, calls, cycles>>
    /\ Static

\* the import paths of the running loop with what each resolves to
Resolutions(items) ==
    {[item |-> item, resolved_path |-> _resolve_dependency_path(item)] : item \in items}

\* resolved_path is a path: the edge is added
ResolveDependency(r) ==
    /\ r.resolved_path # None
    /\ ResolveStep(r.item, r.resolved_path)

\* resolved_path is None: the loop goes on to its next item
DropUnresolved(r) ==
    /\ r.resolved_path = None
    /\ ResolveStep(r.item, r.resolved_path)

TakeDependency ==
    /\ stack # <<>>
    /\ \E r \in Resolutions(LoopItems(Top)) :
        \/ ResolveDependency(r)
        \/ DropUnresolved(r)

\* if not self._is_analyzed(resolved_path): the target is already analyzed
SkipAnalyzed ==
    /\ stack # <<>>
    /\ Top.pending # None
    /\ _is_analyzed(Top.pending)
    /\ stack' = SetTop(stack, [Top EXCEPT !.pending = None])
    /\ UNCHANGED <<files, dependency_graph, extractCount, calls, cycles>>
    /\ Static

\* self.analyze_file(resolved_path, depth)
RecurseInto ==
    /\ stack # <<>>
    /\ Top.pending # None
    /\ ~_is_analyzed(Top.pending)
    /\ Returns(analyze_file(Top.pending, Top.depth,
                            SetTop(stack, [Top EXCEPT !.pending = None])))
    /\ UNCHANGED <<dependency_graph, calls, cycles>>
    /\ Static

\* both loops of _analyze_dependencies are exhausted: it returns
ReturnFromDependencies ==
    /\ stack # <<>>
    /\ Top.pending = None
    /\ CurrentLoop(Top) = None
    /\ stack' = SubSeq(stack, 1, Len(stack) - 1)
    /\ UNCHANGED <<files, dependency_graph, extractCount, calls, cycles>>
    /\ Static

\* the steps of a running analyze_file call
WalkStep ==
    \/ TakeDependency
    \/ SkipAnalyzed
    \/ RecurseInto
    \/ ReturnFromDependencies

(***************************************************************************)
(* The cycle detector.                                                     *)
(***************************************************************************)
\* reading dependency_graph[key] enters a missing key with an empty set
Touch(g, key) == [k \in DOMAIN g \cup {key} |-> Edges(g, k)]

\* a cycle reported without its closing node
CycleFromOpen(current_path, dep) ==
    LET cycle_start == CHOOSE i \in 1..Len(current_path) :
                           /\ current_path[i] = dep
                           /\ \A j \in 1..(i - 1) : current_path[j] # dep
    IN  SubSeq(current_path, cycle_start, Len(current_path))

\* current_path[current_path.index(dep):] + [dep]
CycleFrom(current_path, dep) ==
    LET cycle_start == CHOOSE i \in 1..Len(current_path) :
                           /\ current_path[i] = dep
                           /\ \A j \in 1..(i - 1) : current_path[j] # dep
    IN  Append(SubSeq(current_path, cycle_start, Len(current_path)), dep)

\* dep in current_path
OnPath(dep, current_path) == \E i \in 1..Len(current_path) : current_path[i] = dep

RECURSIVE _find_circular_dependencies(_, _, _)
RECURSIVE CycleLoop(_, _, _, _)
RECURSIVE CycleLoopShallow(_, _, _, _)

\* a loop that recurses but drops the cycles the recursive call returns
CycleLoopShallow(g, todo, current_path, found) ==
    IF todo = {} THEN [cycles |-> found, graph |-> g]
    ELSE LET dep == CHOOSE x \in todo : TRUE
         IN  IF OnPath(dep, current_path)
             THEN CycleLoopShallow(g, todo \ {dep}, current_path,
                                   Append(found, CycleFrom(current_path, dep)))
             ELSE LET r == _find_circular_dependencies(g, dep, current_path)
                  IN  CycleLoopShallow(r.graph, todo \ {dep}, current_path, found)

\* the for loop over the dependencies of the last file of current_path; the
\* order a set is iterated in only changes the order of the reported cycles
CycleLoop(g, todo, current_path, found) ==
    IF todo = {} THEN [cycles |-> found, graph |-> g]
    ELSE LET dep == CHOOSE x \in todo : TRUE
         IN  IF OnPath(dep, current_path)
             THEN CycleLoop(g, todo \ {dep}, current_path,
                            Append(found, CycleFrom(current_path, dep)))
             ELSE LET r == _find_circular_dependencies(g, dep, current_path)
                  IN  CycleLoop(r.graph, todo \ {dep}, current_path, found \o r.cycles)

\* the cycles returned and the graph mapping left behind
_find_circular_dependencies(g, start_file, path) ==
    CycleLoop(Touch(g, start_file), Edges(g, start_file), Append(path, start_file), <<>>)

\* the list a call returned, kept under its start file
Returned(found, start_file, result) ==
    [k \in DOMAIN found \cup {start_file} |-> IF k = start_file THEN result ELSE found[k]]

\* what the calls _find_circular_dependencies(file_path) for the files of todo
\* return, one after the other, and the graph mapping they leave behind
RECURSIVE ReportLoop(_, _, _)
ReportLoop(g, todo, found) ==
    IF todo = {} THEN [cycles |-> found, graph |-> g]
    ELSE LET file_path == CHOOSE x \in todo : TRUE
             r == _find_circular_dependencies(g, file_path, <<>>)
         IN  ReportLoop(r.graph, todo \ {file_path}, Returned(found, file_path, r.cycles))

\* the state a series of cycle checks leaves
Checked(r) ==
    /\ cycles' = r.cycles
    /\ dependency_graph' = r.graph
    /\ UNCHANGED <<files, stack, extractCount, calls>>
    /\ Static

\* a call _find_circular_dependencies(start_file)
FindCircular(start_file) ==
    /\ stack = <<>>
    /\ Checked(ReportLoop(dependency_graph, {start_file}, cycles))

\* generate_report: nothing when no file was analyzed, else the loop over
\* self.files with its cycle check for every file
generate_report ==
    /\ stack = <<>>
    /\ DOMAIN files # {}
    /\ Checked(ReportLoop(dependency_graph, DOMAIN files, cycles))

(***************************************************************************)
(* The analyzer: analyze_file calls on a project, then the report.         *)
(***************************************************************************)
Texts(f) ==
    {BaseImports(f) \cup c : c \in {x \in SUBSET Candidates(f) : Cardinality(x) <= MaxImports}}

Contents ==
    {[f \in AllFiles |-> CASE f = FA -> a [] f = FB -> b [] f = FT -> t [] OTHER -> {}] :
        a \in Texts(FA), b \in Texts(FB), t \in Texts(FT)}

IdleClassifier == deps = DependencyInfo(0, None) /\ matches = {}

IdleResolver == resolving = None /\ resolved = None

Init ==
    /\ max_depth \in 0..MaxDepthBound
    /\ analyze_mode \in {"deep", "shallow"}
    /\ content \in Contents
    /\ hashOrder \in HashOrders
    /\ files = EmptyMap
    /\ dependency_graph = EmptyMap
    /\ stack = <<>>
    /\ extractCount = EmptyMap
    /\ calls = <<>>
    /\ cycles = EmptyMap
    /\ IdleClassifier
    /\ IdleResolver

Next ==
    \/ \E f \in DirectTargets : AnalyzeTarget(f)
    \/ WalkStep
    \/ generate_report

Spec == Init /\ [][Next]_vars

\* a running call keeps executing
LiveSpec == Spec /\ WF_vars(WalkStep)

(***************************************************************************)
(* The classifier on its own: _extract_dependencies classifies the import  *)
(* paths matched in one file, one call of _categorize_dependency each.     *)
(***************************************************************************)
IdleWalker ==
    /\ max_depth = 0
    /\ analyze_mode = "deep"
    /\ content = [f \in AllFiles |-> {}]
    /\ hashOrder = FileList
    /\ files = EmptyMap
    /\ stack = <<>>
    /\ extractCount = EmptyMap
    /\ calls = <<>>
    /\ cycles = EmptyMap

ClassifyInit ==
    /\ IdleWalker
    /\ IdleResolver
    /\ dependency_graph = EmptyMap
    /\ \E d \in 0..MaxDepthBound : deps = DependencyInfo(d, None)
    /\ matches \in {m \in SUBSET ClassifyInputs : Cardinality(m) <= MaxMatches}

CategorizeNext ==
    \E import_path \in matches :
        /\ deps' = _categorize_dependency(import_path, deps)
        /\ matches' = matches \ {import_path}
        /\ UNCHANGED <<max_depth, analyze_mode, content, hashOrder, files,
                       dependency_graph, stack, extractCount, calls, cycles,
                       resolving, resolved>>

ClassifySpec == ClassifyInit /\ [][CategorizeNext]_vars

(***************************************************************************)
(* The cycle detector on its own, on any dependency graph.                 *)
(***************************************************************************)
NodeList == <<"A", "B", "C", "D", "E">>

GraphNodes == {NodeList[i] : i \in 1..MaxNodes}

GraphOf(edges) ==
    [k \in {e[1] : e \in edges} |-> {e[2] : e \in {x \in edges : x[1] = k}}]

GraphInit ==
    /\ IdleWalker
    /\ IdleClassifier
    /\ IdleResolver
    /\ \E edges \in {x \in SUBSET (GraphNodes \X GraphNodes) : Cardinality(x) <= MaxEdges} :
           dependency_graph = GraphOf(edges)

FindCycles == \E start_file \in GraphNodes : FindCircular(start_file)

GraphSpec == GraphInit /\ [][FindCycles]_vars

(***************************************************************************)
(* The resolver on its own: one call of _resolve_dependency_path on the    *)
(* index built from the project, for any import path.                      *)
(***************************************************************************)
\* imports App.vue may share with B.vue
SharedImports == {Import("@/api/user", "es6")}

ResolveContents ==
    {[c EXCEPT ![FA] = @ \cup e] : c \in Contents, e \in SUBSET SharedImports}

ResolveInit ==
    /\ max_depth = 0
    /\ analyze_mode = "deep"
    /\ content \in ResolveContents
    /\ hashOrder \in HashOrders
    /\ files = EmptyMap
    /\ dependency_graph = EmptyMap
    /\ stack = <<>>
    /\ extractCount = EmptyMap
    /\ calls = <<>>
    /\ cycles = EmptyMap
    /\ IdleClassifier
    /\ IdleResolver

Resolve ==
    \E import_path \in ResolveInputs :
        /\ resolving' = import_path
        /\ resolved' = _resolve_dependency_path(import_path)
        /\ UNCHANGED <<max_depth, analyze_mode, content, hashOrder, files,
                       dependency_graph, stack, extractCount, calls, cycles,
                       deps, matches>>

ResolveSpec == ResolveInit /\ [][Resolve]_vars

(***************************************************************************)
(* Properties.                                                             *)
(***************************************************************************)
Range(q) == {q[i] : i \in 1..Len(q)}

\* the component, hook and util import paths recorded for an analyzed file
WalkedPaths(k) ==
    DOMAIN files[k].dependencies.components
    \cup files[k].dependencies.hooks \cup files[k].dependencies.utils

\* C1: a deep analysis terminates: whenever a call of the mutually recursive
\* analyze_file / _analyze_dependencies is pending, a state with no pending
\* call is reached, for acyclic, cyclic and self-importing projects alike.
C1_Termination == (stack # <<>>) ~> (stack = <<>>)

\* a finished deep analysis of a project where App imports itself and B, and
\* B imports App back
C1_Witness ==
    /\ stack = <<>>
    /\ calls = <<FA>>
    /\ analyze_mode = "deep"
    /\ {AbsOf[FA], AbsOf[FB]} \subseteq Edges(dependency_graph, FA)
    /\ AbsOf[FA] \in Edges(dependency_graph, FB)
    /\ {FA, FB} \subseteq DOMAIN files

DirectCalls(k) == Cardinality({i \in 1..Len(calls) : calls[i] = k})

\* an edge to the file has been recorded: the walker met it as a dependency
Discovered(k) == \E key \in DOMAIN dependency_graph : AbsOf[k] \in dependency_graph[key]

\* C2: a file met once through a direct analyze_file call and once as a
\* discovered dependency, in either order, has its dependencies extracted
\* only once.
C2_ExtractedOnce ==
    \A k \in DOMAIN extractCount :
        (k \in AllFiles /\ DirectCalls(k) <= 1 /\ Discovered(k)) => extractCount[k] <= 1

C3_DepthBounded == \A k \in DOMAIN files : files[k].dependencies.depth <= max_depth

C3_Scenario ==
    ( /\ max_depth = 0
      /\ analyze_mode = "deep"
      /\ calls = <<FA>>
      /\ stack = <<>>
      /\ content[FA] = {Import("../components/B", "es6")} )
    => ( /\ DOMAIN files = {FA}
         /\ FB \notin DOMAIN extractCount
         /\ Edges(dependency_graph, FA) \in {{}, {AbsOf[FB]}} )

\* the walker is about to call analyze_file with a depth beyond max_depth
C3_DeepCall == stack # <<>> /\ Top.pending # None /\ Top.depth > max_depth

\* C3: analyze_file(f, d) with d > max_depth changes neither the files table
\* nor the graph, no FileInfo is stored with a depth beyond max_depth, and
\* with max_depth = 0 the analysis of App, whose only dependency is B, ends
\* with only App in the files table and at most the edge App -> B.
C3_DepthTruncation ==
    /\ [](C3_DepthBounded /\ C3_Scenario)
    /\ [][C3_DeepCall => (files' = files /\ dependency_graph' = dependency_graph)]_vars

C3_Witness ==
    /\ max_depth = 0
    /\ analyze_mode = "deep"
    /\ calls = <<FA>>
    /\ stack = <<>>
    /\ content[FA] = {Import("../components/B", "es6")}
    /\ DOMAIN files = {FA}
    /\ Edges(dependency_graph, FA) = {AbsOf[FB]}

IsClosedCycle(g, c) ==
    /\ Len(c) >= 2
    /\ c[1] = c[Len(c)]
    /\ \A i \in 1..(Len(c) - 1) : c[i + 1] \in Edges(g, c[i])
    /\ \A i, j \in 1..(Len(c) - 1) : i # j => c[i] # c[j]

Triangle == GraphOf({<<"A", "B">>, <<"B", "C">>, <<"C", "A">>})

\* C4: every cycle returned starts and ends at the same node, follows edges
\* of the graph and repeats no other node; for A->B, B->C, C->A and start A
\* the result contains [A, B, C, A].
C4_CyclesWellFormed ==
    \A start_file \in DOMAIN cycles :
        /\ \A c \in Range(cycles[start_file]) : IsClosedCycle(dependency_graph, c)
        /\ (start_file = "A" /\ \A n \in GraphNodes :
                                   Edges(dependency_graph, n) = Edges(Triangle, n))
           => <<"A", "B", "C", "A">> \in Range(cycles[start_file])

C4_Witness ==
    /\ "A" \in DOMAIN cycles
    /\ \A n \in GraphNodes : Edges(dependency_graph, n) = Edges(Triangle, n)
    /\ cycles["A"] = << <<"A", "B", "C", "A">> >>

GraphNodesOf(g) == DOMAIN g \cup UNION {g[k] : k \in DOMAIN g}

RECURSIVE ReachFrom(_, _)
ReachFrom(g, seen) ==
    LET more == seen \cup UNION {Edges(g, n) : n \in seen}
    IN  IF more = seen THEN seen ELSE ReachFrom(g, more)

\* the simple cycles of g, each as the sequence of its distinct nodes
SimpleCycles(g) ==
    LET nodes == GraphNodesOf(g)
    IN  {c \in UNION {[1..n -> nodes] : n \in 1..Cardinality(nodes)} :
            /\ \A i, j \in 1..Len(c) : i # j => c[i] # c[j]
            /\ \A i \in 1..(Len(c) - 1) : c[i + 1] \in Edges(g, c[i])
            /\ c[1] \in Edges(g, c[Len(c)])}

Rotations(c) ==
    {[i \in 1..Len(c) |-> c[((i + k - 1) % Len(c)) + 1]] : k \in 0..(Len(c) - 1)}

\* C5: every simple cycle whose nodes are reachable from the start node is
\* reported, as some rotation of it closed by its first node.
C5_AllCyclesReported ==
    \A start_file \in DOMAIN cycles :
        \A c \in SimpleCycles(dependency_graph) :
            c[1] \in ReachFrom(dependency_graph, {start_file})
            => \E r \in Rotations(c) : Append(r, r[1]) \in Range(cycles[start_file])

\* a cycle that does not pass through the start node is reported
C5_Witness ==
    /\ "A" \in DOMAIN cycles
    /\ Edges(dependency_graph, "A") = {"B"}
    /\ <<"B", "C", "B">> \in Range(cycles["A"])

\* some import of file a resolves to file b, and is one the walker follows
Imports(a, b) ==
    \E i \in content[a] :
        /\ Category[i.path] \in {"components", "hooks", "utils"}
        /\ _resolve_dependency_path(i.path) = AbsOf[b]

\* C6: when App and B import each other through resolvable component, hook
\* or util specifiers and max_depth >= 1, the cycle check generate_report
\* makes for App after analyze_file(App) returns a cycle through App and B.
C6_CycleFound ==
    ( /\ FA \in DOMAIN cycles
      /\ calls = <<FA>>
      /\ analyze_mode = "deep"
      /\ max_depth >= 1
      /\ Imports(FA, FB)
      /\ Imports(FB, FA) )
    => \E c \in Range(cycles[FA]) :
           /\ FA \in Range(c)
           /\ {FB, AbsOf[FB]} \cap Range(c) # {}

\* no resolution strategy gives a path for the import path
Unresolvable(import_path) ==
    /\ Strategies[import_path].relative = None
    /\ Strategies[import_path].alias = None
    /\ ResolveIndex(import_path) = None
    /\ Strategies[import_path].fuzzy[hashOrder] = None
    /\ Strategies[import_path].probe = None

AllTodo(frame) == frame.todo.components \cup frame.todo.hooks \cup frame.todo.utils

C7_OnlyResolvedEdges ==
    \A k \in DOMAIN dependency_graph :
        \A t \in dependency_graph[k] :
            /\ k \in DOMAIN files
            /\ \E p \in WalkedPaths(k) : ~Unresolvable(p) /\ _resolve_dependency_path(p) = t

\* the walker takes the unresolvable item from its loop in this step
C7_Takes(item) ==
    /\ Unresolvable(item)
    /\ Len(stack') = Len(stack)
    /\ item \notin AllTodo(stack'[Len(stack')])

C7_DropsQuietly ==
    \A item \in (IF stack # <<>> /\ Top.pending = None THEN AllTodo(Top) ELSE {}) :
        C7_Takes(item) =>
            /\ dependency_graph' = dependency_graph
            /\ files' = files
            /\ stack'[Len(stack')].pending = None
            /\ AllTodo(stack'[Len(stack')]) = AllTodo(Top) \ {item}
            /\ SubSeq(stack', 1, Len(stack) - 1) = SubSeq(stack, 1, Len(stack) - 1)

\* C7: an import path no strategy resolves adds no edge and stops nothing:
\* the walker goes on with the remaining dependencies of the file, and every
\* edge of the graph is the resolution of an import path that resolved.
C7_UnresolvedDropped == []C7_OnlyResolvedEdges /\ [][C7_DropsQuietly]_vars

\* useT required './qq', which nothing resolves, and then './theme', whose
\* edge was recorded afterwards
C7_Witness ==
    /\ stack # <<>>
    /\ Top.file_key = FT
    /\ "./qq" \in files[FT].dependencies.utils
    /\ "./qq" \notin AllTodo(Top)
    /\ Unresolvable("./qq")
    /\ Top.pending = AbsOf[FCSS]
    /\ Edges(dependency_graph, FT) = {AbsOf[FCSS]}

\* C8: after a deep analysis has completed, the graph entry of every file of
\* the files table is exactly the set of paths its component, hook and util
\* import paths resolve to, whether or not the target was analyzed; style,
\* type, api and external import paths give no edge.
C8_EdgesAreResolutions ==
    (stack = <<>> /\ analyze_mode = "deep") =>
        \A k \in DOMAIN files :
            Edges(dependency_graph, k) =
                {_resolve_dependency_path(p) :
                    p \in {x \in WalkedPaths(k) : _resolve_dependency_path(x) # None}}

\* B has an edge to App, analyzed before it, and to useT, which the depth
\* limit kept from being analyzed, and none for its style and api imports
C8_Witness ==
    /\ stack = <<>>
    /\ analyze_mode = "deep"
    /\ calls = <<FA>>
    /\ FB \in DOMAIN files
    /\ FT \notin DOMAIN files
    /\ Edges(dependency_graph, FB) = {AbsOf[FA], AbsOf[FT]}
    /\ files[FB].dependencies.styles # {}
    /\ files[FB].dependencies.api # {}

CollectionNames == {"components", "hooks", "utils", "types", "api", "styles", "external"}

Collection(d, name) ==
    CASE name = "components" -> DOMAIN d.components
      [] name = "hooks" -> d.hooks
      [] name = "utils" -> d.utils
      [] name = "types" -> d.types
      [] name = "api" -> d.api
      [] name = "styles" -> d.styles
      [] name = "external" -> d.external

Classified(d) == UNION {Collection(d, n) : n \in CollectionNames}

\* the first of the listed words the text satisfies, by the given test
FirstWord(words, Test(_), otherwise) ==
    IF \E i \in 1..Len(words) : Test(words[i])
    THEN words[CHOOSE i \in 1..Len(words) :
                   Test(words[i]) /\ \A j \in 1..(i - 1) : ~Test(words[j])]
    ELSE otherwise

\* the category the decision list gives an import path
ClaimedCategoryOf(import_path) ==
    LET seg == Split(import_path)[2]
        named(w) == seg = w
        has(w) == IF w = "types"
                  THEN Contains(import_path, w) \/ EndsWith(import_path, ".d.ts")
                  ELSE Contains(import_path, w)
    IN  IF StartsWith(import_path, "@/")
        THEN FirstWord(<<"components", "hooks", "utils", "types", "api">>, named,
                       IF IsStyle(seg) THEN "styles" ELSE "utils")
        ELSE FirstWord(<<"components", "hooks", "utils", "types", "api">>, has,
                       IF IsStyle(import_path) THEN "styles"
                       ELSE IF \A p \in {"/", ".", "@"} : ~StartsWith(import_path, p)
                            THEN "external"
                            ELSE "utils")

ClaimedCategory == [s \in ClassifyInputs |-> ClaimedCategoryOf(s)]

C9_InClaimedCategory ==
    /\ \A s \in Classified(deps) :
           \A n \in CollectionNames : (s \in Collection(deps, n)) <=> (n = ClaimedCategory[s])
    /\ "@/components/hooks/Foo" \in Classified(deps)
           => "@/components/hooks/Foo" \in DOMAIN deps.components
    /\ "../hooks/useThing" \in Classified(deps) => "../hooks/useThing" \in deps.hooks

C9_EveryPathClassified ==
    /\ Classified(deps) \subseteq Classified(deps')
    /\ (matches \ matches') \subseteq Classified(deps')

\* C9: _categorize_dependency puts every import path into exactly one
\* category, the first match of: the segment after '@/'; else the substring
\* precedence components > hooks > utils > types or '.d.ts' > api > style
\* suffix; else external for a bare name; else util.
C9_ClassifierPrecedence == []C9_InClaimedCategory /\ [][C9_EveryPathClassified]_vars

C9_Witness ==
    /\ matches = {}
    /\ "@/components/hooks/Foo" \in DOMAIN deps.components
    /\ "../hooks/useThing" \in deps.hooks

\* what a relative import path of file f gives when resolved against the
\* directory that contains f
OwnDirResolution ==
    [f \in AllFiles |->
        [s \in Specifiers |-> ResolveRelativeFrom(s, PathParent(AbsOf[f]))]]

\* C10: a relative import path of an analyzed file is resolved against the
\* directory of that file: the edge recorded for it leads to the path it
\* names from there.
C10_ResolvedFromImporter ==
    (stack = <<>> /\ analyze_mode = "deep") =>
        \A k \in DOMAIN files \cap AllFiles :
            \A p \in WalkedPaths(k) :
                OwnDirResolution[k][p] # None
                => OwnDirResolution[k][p] \in Edges(dependency_graph, k)


\* the alias-expanded form of an import path that starts with "@/"
AliasExpanded(import_path) ==
    PathJoin(project_root,
             alias_mappings["@"] \o "/" \o SubSeq(import_path, 3, Len(import_path)))

\* the expanded path if it exists, else the first existing path among the
\* expanded path with each entry of the probe list written after it
ExtendedOf(full_path) ==
    IF Exists(full_path) THEN full_path
    ELSE FirstHit([k \in 1..Len(ProbeList) |-> IfExists(full_path \o ProbeList[k])])

AliasInputs == {s \in ResolveInputs : StartsWith(s, "@/")}

ExtendedAlias == [s \in AliasInputs |-> ExtendedOf(AliasExpanded(s))]

\* C11: for an import path that starts with "@/", with "@" mapped to "src",
\* the resolver returns the alias-expanded path if it exists, otherwise the
\* first existing path among the expanded path extended by .tsx, .jsx, .ts,
\* .js, .vue, /index.tsx, /index.jsx, /index.ts, /index.js, /index.vue in
\* this order, before the import index and the fuzzy search are asked.
C11_AliasExtended ==
    (resolving \in AliasInputs /\ ExtendedAlias[resolving] # None)
        => resolved = ExtendedAlias[resolving]


\* the depth stored for an analyzed file
DepthOf(tbl, k) == tbl[k].dependencies.depth

\* C12 as stated: for every edge F -> G of the dependency graph with both F
\* and G in the files table, the depth stored for G is at least the depth
\* stored for F, edges that lead back to a file analyzed earlier included.
C12_DepthMonotone ==
    \A F \in DOMAIN files, G \in DOMAIN files :
        AbsOf[G] \in Edges(dependency_graph, F) => DepthOf(files, G) >= DepthOf(files, F)

\* C12: depth grows along the edges the walker descends: a file G stored by
\* the recursive call made for a recorded edge F -> G gets the depth of F
\* plus one.  An edge to a file that is already analyzed stores nothing.
C12_DescentDeepens ==
    [][\A G \in DOMAIN files' \ DOMAIN files :
          stack # <<>> =>
              /\ AbsOf[G] \in Edges(dependency_graph, Top.file_key)
              /\ DepthOf(files', G) = DepthOf(files, Top.file_key) + 1]_vars

\* App.vue at depth 0 has descended to B.vue at depth 1, and B.vue has an
\* edge that leads back to App.vue
C12_Witness ==
    /\ {FA, FB} \subseteq DOMAIN files
    /\ DepthOf(files, FA) = 0 /\ DepthOf(files, FB) = 1
    /\ AbsOf[FB] \in Edges(dependency_graph, FA)
    /\ AbsOf[FA] \in Edges(dependency_graph, FB)


\* what _resolve_dependency_path returns in a process whose sets of path
\* strings iterate in the given order
ResolvedIn(import_path, order) ==
    FirstResolved(Strategies[import_path],
                  FirstIndexed(import_index(import_path), order), order)

\* C13: a call of the resolver with the same import path, the same current
\* directory, the same project tree and the same index contents returns the
\* path this call returned, also when the index entry or the set of fuzzy
\* matches of the import path holds more than one path.
C13_SamePath ==
    resolving # None => \A order \in HashOrders : ResolvedIn(resolving, order) = resolved


\* tbl2 is tbl except, at most, for the entry of key
SameExceptAt(tbl, tbl2, key) ==
    /\ DOMAIN tbl2 \subseteq DOMAIN tbl \cup {key}
    /\ \A k \in DOMAIN tbl \ {key} : k \in DOMAIN tbl2 /\ tbl2[k] = tbl[k]

\* C14: in shallow mode a call analyze_file(A) analyzes only A: it changes
\* at most the entry of A in the files table, starts no processing of a
\* dependency of A, and leaves the dependency graph as it is, whatever A
\* imports.
C14_ShallowOnlyTarget ==
    [][(analyze_mode = "shallow" /\ calls' # calls) =>
          /\ SameExceptAt(files, files', calls'[Len(calls')])
          /\ SameExceptAt(extractCount, extractCount', calls'[Len(calls')])
          /\ stack' = <<>>
          /\ dependency_graph' = dependency_graph]_vars

\* App.vue analyzed in shallow mode: it imports a component and a util that
\* resolve, only App.vue is in the files table and the graph has no entry
C14_Witness ==
    /\ analyze_mode = "shallow"
    /\ calls = <<FA>>
    /\ DOMAIN files = {FA}
    /\ "../components/B" \in DOMAIN files[FA].dependencies.components
    /\ "./x" \in files[FA].dependencies.utils
    /\ stack = <<>>
    /\ dependency_graph = EmptyMap


\* C15: a call of _find_circular_dependencies only reads what the walker
\* left: the dependency graph has the same keys and the same edges for every
\* key after the call as before, and the files table is unchanged, for any
\* start node, also one that has no entry in the graph.
C15_DetectorReadsOnly ==
    [][dependency_graph' = dependency_graph /\ files' = files]_vars


\* file k imports itself: one of its walked import paths names k's own path,
\* as a relative path (from k's directory or from the resolver's current
\* directory) or as an alias path
ImportsItself(k) ==
    \E p \in WalkedPaths(k) :
        \/ OwnDirResolution[k][p] = AbsOf[k]
        \/ Strategies[p].relative = AbsOf[k]
        \/ Strategies[p].alias = AbsOf[k]

\* C16: the walker records an edge from a file F to F's own path only if F
\* imports itself; an import path of F that falls through to the index
\* lookup does not resolve to F merely because F contains it.
C16_NoSelfEdge ==
    \A F \in DOMAIN files \cap AllFiles :
        AbsOf[F] \in Edges(dependency_graph, F) => ImportsItself(F)

====
